---- MODULE Spec2Model ----
(***************************************************************************)
(* Cell Analyzer (Har_app.py): the measurement store of a tab              *)
(* (cell_measurements, next_cell_id), its calibration (image_width_um,     *)
(* image_height_um, pixel_width_um, pixel_height_um), the measurement      *)
(* table, and the project file written by save_project and read by         *)
(* _load_project_from_path.                                                *)
(*                                                                         *)
(* Python floats are modelled as exact rationals <<n, d>> in lowest terms. *)
(* The image library (cv2) and the toolkit (Qt) are outside the            *)
(* repository: their calls are modelled by what the documentation of       *)
(* each call says it returns on the inputs used here.                      *)
(***************************************************************************)
EXTENDS Integers, Sequences, FiniteSets, TLC

VARIABLES tabs, disk, status

vars == <<tabs, disk, status>>

(***************************************************************************)
(* Bounds of the model.                                                    *)
(***************************************************************************)
\* most tabs open at once (add_new_tab is disabled beyond it)
MaxTabs == 2
\* largest id handle_click hands out (clicks are disabled beyond it)
MaxId == 2
\* outline items in the scene of one tab
MaxItems == 4
\* lines drawn in one tab since its image was analyzed
MaxLines == 2

\* Python's None
None == [none |-> TRUE]

\* a wrapper whose Qt object has been destroyed: every call on it raises
\* RuntimeError
Deleted == [deleted |-> TRUE]

(***************************************************************************)
(* Floats.                                                                 *)
(***************************************************************************)
RECURSIVE Gcd(_, _)
Gcd(a, b) == IF b = 0 THEN a ELSE Gcd(b, a % b)

Abs(n) == IF n < 0 THEN -n ELSE n

\* the float n/d (d > 0)
Rat(n, d) ==
    LET g == Gcd(Abs(n), d) IN
    IF n = 0 THEN <<0, 1>> ELSE <<n \div g, d \div g>>

Float(n) == Rat(n, 1)

\* a * b on floats
Mul(a, b) == Rat(a[1] * b[1], a[2] * b[2])

\* a / k for an int k > 0 (a pixel count)
DivInt(a, k) == Rat(a[1], a[2] * k)

\* k * a for an int k
IntMul(k, a) == Rat(k * a[1], a[2])

(***************************************************************************)
(* str() and float() / int() on the texts of the line edits and the table. *)
(* float() accepts an integer literal and a literal with a fraction;       *)
(* str() of a float always prints the fraction.                            *)
(***************************************************************************)
FloatLiterals ==
    { <<"100.0", 100>>, <<"100", 100>>, <<"200.0", 200>>, <<"200", 200>>,
      <<"400.0", 400>>, <<"400", 400>>, <<"0.0", 0>>, <<"0", 0>>,
      <<"-50.0", -50>>, <<"-50", -50>>, <<"80.0", 80>>, <<"80", 80>> }

\* float(text) raises ValueError
FloatFails(text) == \A l \in FloatLiterals : l[1] # text

\* float(text), for a text it accepts
ParseFloat(text) == Float((CHOOSE l \in FloatLiterals : l[1] = text)[2])

\* str(x) of a float x with an integral value
StrFloat(x) == ToString(x[1]) \o ".0"

\* str(n) of an int
StrInt(n) == ToString(n)

\* int(text) of a table cell
ParseInt(text) == CHOOSE n \in 0..(MaxId + 8) : ToString(n) = text

(***************************************************************************)
(* Contours: numpy arrays of points, and their list form (tolist).         *)
(***************************************************************************)
\* np.array(list, dtype=np.int32)
NpArray(pts) == [ndarray |-> pts]

\* contour.tolist()
ToList(contour) == contour.ndarray

Min(S) == CHOOSE m \in S : \A n \in S : m <= n
Max(S) == CHOOSE m \in S : \A n \in S : m >= n

\* cv2.boundingRect(contour): <<x, y, w, h>>
BoundingRect(contour) ==
    LET p  == contour.ndarray
        xs == {p[i][1] : i \in DOMAIN p}
        ys == {p[i][2] : i \in DOMAIN p}
    IN  <<Min(xs), Min(ys), Max(xs) - Min(xs) + 1, Max(ys) - Min(ys) + 1>>

\* cv2.contourArea(contour): Green's formula, as a float
ContourArea(contour) ==
    LET p == contour.ndarray
        n == Len(p)
        nxt(i) == IF i = n THEN 1 ELSE i + 1
        RECURSIVE Sum(_)
        Sum(i) == IF i > n THEN 0
                  ELSE p[i][1] * p[nxt(i)][2] - p[nxt(i)][1] * p[i][2] + Sum(i + 1)
    IN  Rat(Abs(Sum(1)), 2)

\* cv2.pointPolygonTest(contour, pt, False) >= 0, for a convex contour:
\* the point is on one side of every edge, or on an edge
PointInPolygon(contour, pt) ==
    LET p == contour.ndarray
        n == Len(p)
        nxt(i) == IF i = n THEN 1 ELSE i + 1
        cross(i) == (p[nxt(i)][1] - p[i][1]) * (pt[2] - p[i][2])
                    - (p[nxt(i)][2] - p[i][2]) * (pt[1] - p[i][1])
    IN  \/ \A i \in 1..n : cross(i) >= 0
        \/ \A i \in 1..n : cross(i) <= 0

(***************************************************************************)
(* Images.  An image is its pixel size and the channels of its pixels in   *)
(* storage order; cv2.imread and cv2.imdecode give BGR.                    *)
(***************************************************************************)
ImageA == [w |-> 100, h |-> 80, px |-> <<30, 20, 10>>]
ImageB == [w |-> 50, h |-> 40, px |-> <<7, 8, 9>>]
ImageC == [w |-> 1000, h |-> 800, px |-> <<40, 50, 60>>]

\* the image files the user can pick in the import dialog
ImagePaths == {"cellsA.png", "cellsB.png", "notes.txt"}

\* cv2.imread(path): the BGR image, or None when the file is no image
ImRead(path) ==
    CASE path = "cellsA.png" -> ImageA
      [] path = "cellsB.png" -> ImageB
      [] path = "plate.png" -> ImageC
      [] OTHER -> None

\* cv2.cvtColor(img, COLOR_BGR2RGB) and COLOR_RGB2BGR: the channels reversed
CvtColorSwap(img) == [img EXCEPT !.px = <<img.px[3], img.px[2], img.px[1]>>]

\* cv2.cvtColor(img, COLOR_BGR2GRAY): one channel, shape (h, w)
CvtColorGray(img) ==
    [w |-> img.w, h |-> img.h,
     px |-> (114 * img.px[1] + 587 * img.px[2] + 299 * img.px[3]) \div 1000]

THRESHOLD_VALUE == 200
MIN_CONTOUR_AREA == 50

Rect(x0, y0, x1, y1) == NpArray(<< <<x0, y0>>, <<x0, y1>>, <<x1, y1>>, <<x1, y0>> >>)

\* cv2.findContours(cv2.threshold(gray, value, 255, THRESH_BINARY_INV)):
\* the outer boundaries of the picture, in the library's order
FindContours(gray, value) ==
    CASE gray.w = 100 /\ value = 200 ->
           << Rect(10, 10, 20, 16),
              Rect(15, 12, 40, 30),
              Rect(50, 50, 60, 55),
              NpArray(<< <<60, 10>>, <<60, 15>>, <<81, 10>> >>) >>
      [] gray.w = 50 /\ value = 200 ->
           << Rect(5, 5, 25, 25) >>
      [] gray.w = 1000 /\ value = 200 ->
           << NpArray(<< <<100, 100>>, <<149, 100>>, <<149, 109>>,
                         <<129, 139>>, <<102, 139>>, <<100, 128>> >>) >>
      [] OTHER -> << >>

\* a > b on floats
Greater(a, b) == a[1] * b[2] > b[1] * a[2]

\* [c for c in contours if cv2.contourArea(c) > self.MIN_CONTOUR_AREA]
FilterContours(cs) ==
    SelectSeq(cs, LAMBDA c : Greater(ContourArea(c), Float(MIN_CONTOUR_AREA)))

(***************************************************************************)
(* CellAnalyzerTab.                                                        *)
(***************************************************************************)
\* CellAnalyzerTab.__init__ and initUI, under the title the QTabWidget shows.
\* issued is a history of the store, not a field of the program: the ids
\* handle_click has handed out, in order, since the store was last cleared
\* or restored.  scene holds the cell outlines among self.scene.items(); an
\* outline item is named by a number, the lowest no item of the scene and no
\* record bears when draw_contour makes it.  draw_radio is the checked mode
\* button; temp_line is None, the line item being dragged, or Deleted once
\* scene.clear() has destroyed that item; the flag draw_line_mode, which
\* nothing reads, and the visibility of the widgets are left out.
NewTab(title) ==
    [ title             |-> title,
      image_width_um    |-> Float(100),
      image_height_um   |-> Float(100),
      pixel_width_um    |-> Float(0),
      pixel_height_um   |-> Float(0),
      contours          |-> << >>,
      cell_measurements |-> << >>,
      next_cell_id      |-> 1,
      img_color         |-> None,
      img_gray          |-> None,
      width_input       |-> StrFloat(Float(100)),
      height_input      |-> StrFloat(Float(100)),
      measurements_table |-> << >>,
      selected          |-> 0,
      scene             |-> {},
      draw_radio        |-> FALSE,
      line_start_point  |-> None,
      temp_line         |-> None,
      current_line_items |-> << >>,
      issued            |-> << >> ]

\* the outline items the records of the tab hold
OutlineItems(tab) ==
    {tab.cell_measurements[i].outline_item : i \in DOMAIN tab.cell_measurements}

\* draw_contour: the QGraphicsPathItem it makes and adds to the scene
DrawContour(tab) ==
    LET used == tab.scene \cup OutlineItems(tab) IN
    CHOOSE n \in 1..(Cardinality(used) + 1) :
        n \notin used /\ \A k \in 1..(n - 1) : k \in used

\* add_measurement_to_table: the record appended, its row inserted and selected
AddMeasurementToTable(tab, cell_id, contour, width_um, height_um, area_um2) ==
    LET outline_item == DrawContour(tab) IN
    [tab EXCEPT
       !.scene = @ \cup {outline_item},
       !.cell_measurements = Append(@, [ id           |-> cell_id,
                                         area_um2     |-> area_um2,
                                         width_um     |-> width_um,
                                         height_um    |-> height_um,
                                         contour_data |-> ToList(contour),
                                         outline_item |-> outline_item ]),
       !.measurements_table = Append(@, StrInt(cell_id)),
       !.selected = Len(tab.measurements_table) + 1]

\* a slip: the store emptied but the counter left where it was
ClearAllOutlinesKeepCounter(tab) ==
    [tab EXCEPT !.scene = @ \ OutlineItems(tab),
                !.current_line_items = << >>,
                !.cell_measurements = << >>,
                !.measurements_table = << >>,
                !.selected = 0]

\* clear_all_outlines: the outlines of the records removed from the scene,
\* the store emptied and the counter reset
ClearAllOutlines(tab) ==
    [tab EXCEPT !.scene = @ \ OutlineItems(tab),
                !.current_line_items = << >>,
                !.cell_measurements = << >>,
                !.measurements_table = << >>,
                !.selected = 0,
                !.next_cell_id = 1,
                !.issued = << >>]

\* analyze_image(img) for a decoded image (img is not None)
AnalyzeImage(tab, img) ==
    LET color == CvtColorSwap(img)
        gray  == CvtColorGray(img)
        t1 == [tab EXCEPT
                 !.img_color = color,
                 !.img_gray = gray,
                 !.scene = {},
                 !.temp_line = IF @ = None THEN None ELSE Deleted,
                 !.contours = FilterContours(FindContours(gray, THRESHOLD_VALUE)),
                 !.pixel_width_um = DivInt(tab.image_width_um, color.w),
                 !.pixel_height_um = DivInt(tab.image_height_um, color.h)]
    IN  ClearAllOutlines(t1)

\* int(x) of a scene coordinate given in half pixels
Trunc(x2) == IF x2 >= 0 THEN x2 \div 2 ELSE -((-x2) \div 2)

\* a slip: the last contour holding the point taken, not the first
LastContourAt(tab, pt) ==
    LET hits == {i \in DOMAIN tab.contours : PointInPolygon(tab.contours[i], pt)}
    IN  IF hits = {} THEN 0 ELSE Max(hits)

\* a slip: a click that misses every contour bound to the first contour
FirstContourOrFirst(tab, pt) ==
    LET hits == {i \in DOMAIN tab.contours : PointInPolygon(tab.contours[i], pt)}
    IN  IF hits = {} THEN (IF tab.contours = << >> THEN 0 ELSE 1) ELSE Min(hits)

\* the index of the first contour of the tab holding the point, or 0
FirstContourAt(tab, pt) ==
    LET hits == {i \in DOMAIN tab.contours : PointInPolygon(tab.contours[i], pt)}
    IN  IF hits = {} THEN 0 ELSE Min(hits)

\* a slip: the counter left where it was after a click
NextIdKept(next_cell_id) == next_cell_id

\* handle_click: self.next_cell_id += 1
NextIdAfterClick(next_cell_id) == next_cell_id + 1

\* a slip: the width taken along the height of a pixel and the height along
\* its width
ClickCreateAxesSwapped(tab, contour) ==
    LET area_px  == ContourArea(contour)
        area_um2 == Mul(Mul(area_px, tab.pixel_width_um), tab.pixel_height_um)
        rect     == BoundingRect(contour)
        width_um == IntMul(rect[3], tab.pixel_height_um)
        height_um == IntMul(rect[4], tab.pixel_width_um)
        t1 == AddMeasurementToTable(tab, tab.next_cell_id, contour,
                                    width_um, height_um, area_um2)
    IN  [t1 EXCEPT !.next_cell_id = NextIdAfterClick(@),
                   !.issued = Append(@, tab.next_cell_id)]

\* handle_click: the body run for the first contour that holds the point
ClickCreate(tab, contour) ==
    LET area_px  == ContourArea(contour)
        area_um2 == Mul(Mul(area_px, tab.pixel_width_um), tab.pixel_height_um)
        rect     == BoundingRect(contour)
        width_um == IntMul(rect[3], tab.pixel_width_um)
        height_um == IntMul(rect[4], tab.pixel_height_um)
        t1 == AddMeasurementToTable(tab, tab.next_cell_id, contour,
                                    width_um, height_um, area_um2)
    IN  [t1 EXCEPT !.next_cell_id = NextIdAfterClick(@),
                   !.issued = Append(@, tab.next_cell_id)]

\* view.mapToScene(event.pos())
ScenePoint(pos) == [x |-> pos[1], y |-> pos[2]]

\* QGraphicsLineItem(x1, y1, x2, y2)
LineItem(p1, p2) == [p1 |-> p1, p2 |-> p2]

\* handle_line_press: clear_temp_items raises on a destroyed temp_line and
\* nothing is assigned; otherwise the start point is kept and a new temp_line
\* is put in the scene
HandleLinePress(tab, pos) ==
    IF tab.temp_line = Deleted THEN tab
    ELSE [tab EXCEPT !.line_start_point = ScenePoint(pos),
                     !.temp_line = LineItem(ScenePoint(<<0, 0>>), ScenePoint(<<0, 0>>))]

\* handle_line_move: temp_line.setLine(start, end); it raises on a destroyed
\* temp_line
HandleLineMove(tab, pos) ==
    IF tab.line_start_point = None \/ tab.temp_line = Deleted THEN tab
    ELSE [tab EXCEPT !.temp_line = LineItem(tab.line_start_point, ScenePoint(pos))]

\* a slip: the drawn line kept as a measurement of the store
HandleLineReleaseRecorded(tab, pos) ==
    IF tab.line_start_point = None THEN tab
    ELSE LET t1 == AddMeasurementToTable(
                       [tab EXCEPT !.current_line_items =
                            Append(@, LineItem(tab.line_start_point, ScenePoint(pos)))],
                       tab.next_cell_id,
                       NpArray(<< <<tab.line_start_point.x, tab.line_start_point.y>>,
                                  <<pos[1], pos[2]>> >>),
                       Float(0), Float(0), Float(0))
         IN  IF tab.temp_line = Deleted THEN t1
             ELSE [t1 EXCEPT !.line_start_point = None, !.temp_line = None]

\* handle_line_release: the final line put in the scene and appended to
\* current_line_items, then clear_temp_items, which raises on a destroyed
\* temp_line before it resets line_start_point
HandleLineRelease(tab, pos) ==
    IF tab.line_start_point = None THEN tab
    ELSE LET t1 == [tab EXCEPT !.current_line_items =
                        Append(@, LineItem(tab.line_start_point, ScenePoint(pos)))]
         IN  IF tab.temp_line = Deleted THEN t1
             ELSE [t1 EXCEPT !.line_start_point = None, !.temp_line = None]

\* a slip: the new values scaled from the record's old values, not derived
\* from its contour
RecalcDerivedFromOld(tab, m) ==
    [ area_um2  |-> Mul(Mul(m.area_um2, tab.pixel_width_um), tab.pixel_height_um),
      width_um  |-> Mul(m.width_um, tab.pixel_width_um),
      height_um |-> Mul(m.height_um, tab.pixel_height_um) ]

\* recalculate_dimensions: the values of record m under the tab's pixel size
RecalcDerived(tab, m) ==
    LET contour_np == NpArray(m.contour_data)
        rect       == BoundingRect(contour_np)
        area_px    == ContourArea(contour_np)
    IN  [ area_um2  |-> Mul(Mul(area_px, tab.pixel_width_um), tab.pixel_height_um),
          width_um  |-> IntMul(rect[3], tab.pixel_width_um),
          height_um |-> IntMul(rect[4], tab.pixel_height_um) ]

\* recalculate_dimensions, the loop over temp_measurements from record i on
RECURSIVE ReAdd(_, _, _)
ReAdd(tab, temp, i) ==
    IF i > Len(temp) THEN tab
    ELSE LET m == temp[i]
             d == RecalcDerived(tab, m)
         IN  ReAdd(AddMeasurementToTable(tab, m.id, NpArray(m.contour_data),
                                         d.width_um, d.height_um, d.area_um2),
                   temp, i + 1)

\* recalculate_dimensions: the tab after the call and the status it shows
RecalculateDimensions(tab) ==
    LET w == ParseFloat(tab.width_input)
        h == ParseFloat(tab.height_input)
        t1 == [tab EXCEPT !.image_width_um = w]
        t2 == [t1 EXCEPT !.image_height_um = h]
        t3 == [t2 EXCEPT
                 !.pixel_width_um = DivInt(w, tab.img_gray.w),
                 !.pixel_height_um = DivInt(h, tab.img_gray.h),
                 !.cell_measurements = << >>,
                 !.measurements_table = << >>,
                 !.selected = 0]
    IN  IF FloatFails(tab.width_input)
        THEN [tab |-> tab, status |-> "Invalid input"]
        ELSE IF FloatFails(tab.height_input)
        THEN [tab |-> t1, status |-> "Invalid input"]
        ELSE IF tab.img_gray # None
             THEN [tab |-> ReAdd(t3, tab.cell_measurements, 1),
                   status |-> "Image dimensions updated"]
             ELSE [tab |-> t2, status |-> "No image loaded"]

\* a slip: the last element removed, whatever the index
RemoveLast(s, i) == SubSeq(s, 1, Len(s) - 1)

\* removeRow(i) of the table, and removeTab(i): the sequence without element i
RemoveAt(s, i) == SubSeq(s, 1, i - 1) \o SubSeq(s, i + 1, Len(s))

\* a slip: the counter handed back when a record is deleted
NextIdDecremented(next_cell_id) == IF next_cell_id > 1 THEN next_cell_id - 1 ELSE 1

\* delete_selected_measurement leaves self.next_cell_id as it is
NextIdAfterDelete(next_cell_id) == next_cell_id

\* a slip: the records left behind numbered again from 1
OthersRenumbered(ms, cell_id) ==
    LET kept == SelectSeq(ms, LAMBDA m : m.id # cell_id)
    IN  [i \in DOMAIN kept |-> [kept[i] EXCEPT !.id = i]]

\* delete_selected_measurement: [m for m in self.cell_measurements
\* if m['id'] != cell_id]
Others(ms, cell_id) == SelectSeq(ms, LAMBDA m : m.id # cell_id)

\* a slip: the last row taken when no row is selected
SelectedRowOrLast(tab) ==
    IF tab.selected = 0 THEN Len(tab.measurements_table) ELSE tab.selected

\* delete_selected_measurement: selected_rows[0].row(), 0 for no selected row
SelectedRow(tab) == tab.selected

\* delete_selected_measurement with a selected row; sel is the row the table
\* selects once the row is removed (the toolkit's choice)
DeleteSelectedMeasurement(tab, sel) ==
    LET row     == SelectedRow(tab)
        cell_id == ParseInt(tab.measurements_table[row])
        found   == \E i \in DOMAIN tab.cell_measurements :
                      tab.cell_measurements[i].id = cell_id
        data_to_delete ==
            tab.cell_measurements[Min({i \in DOMAIN tab.cell_measurements :
                                         tab.cell_measurements[i].id = cell_id})]
    IN  IF row = 0 THEN [tab |-> tab, status |-> "No measurement selected"]
        ELSE IF found
             THEN [tab |-> [tab EXCEPT
                      !.scene = @ \ {data_to_delete.outline_item},
                      !.cell_measurements = Others(@, cell_id),
                      !.measurements_table = RemoveAt(@, row),
                      !.selected = sel,
                      !.next_cell_id = NextIdAfterDelete(@)],
                   status |-> "Deleted Cell"]
             ELSE [tab |-> tab, status |-> "unchanged"]

(***************************************************************************)
(* The project document: PNG, base64 and JSON.                             *)
(***************************************************************************)
\* cv2.imencode('.png', img)[1]: the PNG bytes of a BGR image
ImEncodePng(img) == [png |-> img]

\* cv2.imdecode(bytes, IMREAD_COLOR): the BGR image, or None
ImDecode(bytes) == IF "png" \in DOMAIN bytes THEN bytes.png ELSE None

\* base64.b64encode(bytes).decode('utf-8') and base64.b64decode(text)
B64Encode(bytes) == [b64 |-> bytes]
B64Decode(text) == text.b64

\* json.dump(data, f): the text of the file; json.load(f) of such a text
JsonDump(data) == [json |-> data]
JsonLoad(text) == text.json
JsonFails(text) == "json" \notin DOMAIN text

\* dict.get(key, default)
Get(d, key, default) == IF key \in DOMAIN d THEN d[key] ELSE default

\* a JSON value that is an object (has .get)
IsDict(v) == "scalar" \notin DOMAIN v

\* save_state, the loop that builds serializable_measurements from record i on
RECURSIVE Serializable(_, _)
Serializable(ms, i) ==
    IF i > Len(ms) THEN << >>
    ELSE << [ id           |-> ms[i].id,
              area_um2     |-> ms[i].area_um2,
              width_um     |-> ms[i].width_um,
              height_um    |-> ms[i].height_um,
              contour_data |-> ms[i].contour_data ] >> \o Serializable(ms, i + 1)

\* a slip: the RGB working copy encoded without the conversion to BGR
EncodedWorkingCopy(img_color) == B64Encode(ImEncodePng(img_color))

\* save_state: img_b64, the PNG of the image converted back to BGR
EncodedImage(img_color) == B64Encode(ImEncodePng(CvtColorSwap(img_color)))

\* a slip: a tab with no image written too, with an empty picture
SaveStateEveryTab(tab) ==
    [ title             |-> tab.title,
      image_b64         |-> IF tab.img_color = None THEN B64Encode([raw |-> ""])
                            ELSE EncodedImage(tab.img_color),
      image_width_um    |-> tab.image_width_um,
      image_height_um   |-> tab.image_height_um,
      cell_measurements |-> Serializable(tab.cell_measurements, 1),
      next_cell_id      |-> tab.next_cell_id ]

\* save_state: the snapshot of a tab, or None for a tab with no image
SaveState(tab) ==
    IF tab.img_color = None THEN None
    ELSE [ title             |-> tab.title,
           image_b64         |-> EncodedImage(tab.img_color),
           image_width_um    |-> tab.image_width_um,
           image_height_um   |-> tab.image_height_um,
           cell_measurements |-> Serializable(tab.cell_measurements, 1),
           next_cell_id      |-> tab.next_cell_id ]

\* the measurement dict has the keys load_state subscripts
HasKeys(m) ==
    {"id", "contour_data", "width_um", "height_um", "area_um2"} \subseteq DOMAIN m

\* load_state, the loop over loaded_measurements from record i on
RECURSIVE LoadMeasurements(_, _, _)
LoadMeasurements(tab, loaded, i) ==
    IF i > Len(loaded) THEN tab
    ELSE LET m == loaded[i] IN
         LoadMeasurements(
             AddMeasurementToTable(tab, m.id, NpArray(m.contour_data),
                                   m.width_um, m.height_um, m.area_um2),
             loaded, i + 1)

\* a slip: the counter raised by one for every record loaded
RestoredNextIdCounted(state) ==
    Get(state, "next_cell_id", 1) + Len(Get(state, "cell_measurements", << >>))

\* a slip: the counter left at the 1 of a new tab
RestoredNextIdReset(state) == 1

\* load_state: self.next_cell_id = state.get("next_cell_id", 1)
RestoredNextId(state) == Get(state, "next_cell_id", 1)

\* load_state(state): the tab after the call, the status it shows, and how the
\* call ended: "ok", "caught" (its except clause ran) or "raised" (an
\* exception its except clause does not name left it)
LoadState(tab, state) ==
    LET img_b64 == Get(state, "image_b64", None)
        img     == ImDecode(B64Decode(img_b64))
        t1 == [tab EXCEPT !.image_width_um = Get(state, "image_width_um", Float(100))]
        t2 == [t1 EXCEPT !.height_input = StrFloat(t1.image_height_um)]
        t3 == [t2 EXCEPT !.image_height_um = Get(state, "image_height_um", Float(100))]
        t4 == [t3 EXCEPT !.width_input = StrFloat(t3.image_width_um)]
        t5 == IF img = None THEN t4 ELSE AnalyzeImage(t4, img)
        t6 == [t5 EXCEPT !.cell_measurements = << >>,
                         !.next_cell_id = RestoredNextId(state),
                         !.issued = << >>]
        loaded == Get(state, "cell_measurements", << >>)
    IN  IF ~IsDict(state)
        THEN [tab |-> tab, status |-> "unchanged", end |-> "raised"]
        ELSE IF img_b64 = None
        THEN [tab |-> tab, status |-> "Error loading project", end |-> "caught"]
        ELSE IF \E i \in DOMAIN loaded : ~HasKeys(loaded[i])
        THEN [tab |-> t6, status |-> "unchanged", end |-> "raised"]
        ELSE [tab |-> LoadMeasurements(t6, loaded, 1),
              status |-> "Loaded image into tab", end |-> "ok"]

(***************************************************************************)
(* The files the load dialog can pick: the project file save_project       *)
(* writes (disk) and documents this program did not write.                 *)
(***************************************************************************)
SavedPath == "project.specdatMV"

ForeignPaths ==
    {"empty.json", "notabs.json", "badimage.json", "noimage.json",
     "badentry.json", "baddims.json", "garbage.txt"}

\* one measurement as a document holds it
DocMeasurement(id) ==
    [ id |-> id, area_um2 |-> Float(60), width_um |-> Float(11),
      height_um |-> Float(7),
      contour_data |-> ToList(Rect(10, 10, 20, 16)) ]

ForeignFile(path) ==
    CASE path = "empty.json" ->
           JsonDump([version |-> "1.0", tabs |-> << >>])
      [] path = "notabs.json" ->
           JsonDump([version |-> "1.0"])
      [] path = "badimage.json" ->
           JsonDump([version |-> "1.0", tabs |-> <<
               [ title |-> "bad", image_b64 |-> B64Encode([raw |-> "not an image"]),
                 image_width_um |-> Float(100), image_height_um |-> Float(100),
                 cell_measurements |-> << DocMeasurement(1) >>,
                 next_cell_id |-> 2 ] >>])
      [] path = "noimage.json" ->
           JsonDump([version |-> "1.0", tabs |-> <<
               [ title |-> "none",
                 image_width_um |-> Float(200), image_height_um |-> Float(200),
                 cell_measurements |-> << >>, next_cell_id |-> 1 ] >>])
      [] path = "badentry.json" ->
           JsonDump([version |-> "1.0", tabs |-> << [scalar |-> "tab"] >>])
      [] path = "baddims.json" ->
           JsonDump([version |-> "1.0", tabs |-> <<
               [ title |-> "dims", image_b64 |-> B64Encode(ImEncodePng(ImageB)),
                 image_width_um |-> Float(-50), image_height_um |-> Float(0),
                 cell_measurements |-> << >>, next_cell_id |-> 1 ] >>])
      [] OTHER -> [text |-> "not json"]

\* open(path).read(): the text of the file, or None when there is no such file
ReadFile(path) == IF path = SavedPath THEN disk ELSE ForeignFile(path)

(***************************************************************************)
(* CellAnalyzerApp.                                                        *)
(***************************************************************************)
\* _load_project_from_path, the loop over project_data["tabs"] from entry i on:
\* the tabs added so far, the status shown, and the value returned ("raised"
\* when an exception left the method)
RECURSIVE LoadTabs(_, _, _)
LoadTabs(added, states, i) ==
    IF i > Len(states)
    THEN [tabs |-> added, status |-> "Project loaded", res |-> "True"]
    ELSE LET r == LoadState(NewTab(""), states[i]) IN
         IF r.end = "raised"
         THEN [tabs |-> added,
               status |-> IF r.status = "unchanged" THEN "Please import an image"
                          ELSE r.status,
               res |-> "raised"]
         ELSE LoadTabs(Append(added,
                              [r.tab EXCEPT !.title = Get(states[i], "title", "Loaded Tab")]),
                       states, i + 1)

\* a slip: an empty "tabs" list refused like a missing key
TabsKeyMissingOrEmpty(project_data) ==
    "tabs" \notin DOMAIN project_data \/ project_data.tabs = << >>

\* _load_project_from_path: "tabs" not in project_data
TabsKeyMissing(project_data) == "tabs" \notin DOMAIN project_data

\* _load_project_from_path(path) with the tabs `open` in the window
LoadProjectFromPath(open, path) ==
    LET text == ReadFile(path) IN
    IF text = None \/ JsonFails(text) \/ TabsKeyMissing(JsonLoad(text))
    THEN [tabs |-> open, status |-> "Error loading project", res |-> "False"]
    ELSE LoadTabs(<< >>, JsonLoad(text).tabs, 1)

\* save_project, the loop over the tabs from tab i on: project_states
RECURSIVE ProjectStates(_, _)
ProjectStates(open, i) ==
    IF i > Len(open) THEN << >>
    ELSE LET state == SaveState(open[i]) IN
         (IF state = None THEN << >>
          ELSE << [state EXCEPT !.title = open[i].title] >>)
         \o ProjectStates(open, i + 1)

\* the status bar after a handler that may not have called update_status
Shown(s) == IF s = "unchanged" THEN status ELSE s

\* the texts a user types into the width and the height field
InputTexts == { <<"200", "200">>, <<"200", "abc">>, <<"400", "200">>, <<"abc", "200">> }

\* the scene positions a user clicks, in half pixels
ClickPoints == { <<35, 27>>, <<60, 40>>, <<190, 150>> }

\* the names a user gives a tab
TabNames == {"ctrl"}

Init ==
    /\ tabs = << NewTab("New Tab 1") >>
    /\ disk = None
    /\ status = "Welcome"

\* add_new_tab
AddNewTab ==
    /\ Len(tabs) < MaxTabs
    /\ tabs' = Append(tabs, NewTab("New Tab " \o StrInt(Len(tabs) + 1)))
    /\ status' = "New tab created"
    /\ UNCHANGED disk

\* close_tab(index), the user answering Yes
CloseTab(t) ==
    /\ t \in DOMAIN tabs
    /\ LET rest == RemoveAt(tabs, t) IN
       IF Len(rest) = 0
       THEN tabs' = << NewTab("New Tab 1") >> /\ status' = "New tab created"
       ELSE tabs' = rest /\ status' = "Tab closed"
    /\ UNCHANGED disk

\* rename_tab(index), the user entering a name
RenameTab(t, name) ==
    /\ t \in DOMAIN tabs
    /\ tabs' = [tabs EXCEPT ![t].title = name]
    /\ status' = "Tab renamed"
    /\ UNCHANGED disk

\* import_image on tab t, the user picking path: analyze_image_from_path
ImportImage(t, path) ==
    /\ t \in DOMAIN tabs
    /\ LET img == ImRead(path) IN
       IF img = None
       THEN tabs' = tabs /\ status' = "Error: Could not load image"
       ELSE tabs' = [tabs EXCEPT ![t] = AnalyzeImage(tabs[t], img)]
            /\ status' = "Image scaled to fit"
    /\ UNCHANGED disk

\* eventFilter in area-analysis mode, a left press at pos: handle_click
HandleClick(t, pos) ==
    /\ t \in DOMAIN tabs
    /\ tabs[t].img_color # None
    /\ ~tabs[t].draw_radio
    /\ LET pt == <<Trunc(pos[1]), Trunc(pos[2])>>
           i  == FirstContourAt(tabs[t], pt)
       IN  IF i = 0
           THEN tabs' = tabs /\ status' = status
           ELSE /\ tabs[t].next_cell_id <= MaxId
                /\ Cardinality(tabs[t].scene) < MaxItems
                /\ tabs' = [tabs EXCEPT ![t] = ClickCreate(tabs[t], tabs[t].contours[i])]
                /\ status' = "Cell added"
    /\ UNCHANGED disk

\* a click on row r of the table: the row selected, highlight_cell_from_table
SelectRow(t, r) ==
    /\ t \in DOMAIN tabs
    /\ r \in DOMAIN tabs[t].measurements_table
    /\ tabs' = [tabs EXCEPT ![t].selected = r]
    /\ status' = IF \E i \in DOMAIN tabs[t].cell_measurements :
                      tabs[t].cell_measurements[i].id
                          = ParseInt(tabs[t].measurements_table[r])
                 THEN "Highlighted Cell" ELSE status
    /\ UNCHANGED disk

\* the Delete Selected button: delete_selected_measurement
DeleteSelected(t) ==
    /\ t \in DOMAIN tabs
    /\ \E sel \in 0..Len(tabs[t].measurements_table) :
          /\ sel < Len(tabs[t].measurements_table) \/ sel = 0
          /\ LET r == DeleteSelectedMeasurement(tabs[t], sel) IN
             /\ tabs' = [tabs EXCEPT ![t] = r.tab]
             /\ status' = Shown(r.status)
    /\ UNCHANGED disk

\* the user typing into the width and height fields
EditInputs(t, w, h) ==
    /\ t \in DOMAIN tabs
    /\ tabs' = [tabs EXCEPT ![t].width_input = w, ![t].height_input = h]
    /\ UNCHANGED <<disk, status>>

\* the Recalculate button: recalculate_dimensions
Recalculate(t) ==
    /\ t \in DOMAIN tabs
    /\ LET r == RecalculateDimensions(tabs[t]) IN
       /\ Cardinality(r.tab.scene) <= MaxItems
       /\ tabs' = [tabs EXCEPT ![t] = r.tab]
       /\ status' = r.status
    /\ UNCHANGED disk

\* the user checking the "Draw Line" (draw) or the analysis mode button
SelectMode(t, draw) ==
    /\ t \in DOMAIN tabs
    /\ tabs' = [tabs EXCEPT ![t].draw_radio = draw]
    /\ UNCHANGED <<disk, status>>

\* eventFilter in draw-line mode, a left press at pos: handle_line_press
LinePress(t, pos) ==
    /\ t \in DOMAIN tabs
    /\ tabs[t].img_color # None
    /\ tabs[t].draw_radio
    /\ tabs' = [tabs EXCEPT ![t] = HandleLinePress(tabs[t], pos)]
    /\ UNCHANGED <<disk, status>>

\* eventFilter in draw-line mode, a move to pos with the left button down:
\* handle_line_move
LineMove(t, pos) ==
    /\ t \in DOMAIN tabs
    /\ tabs[t].img_color # None
    /\ tabs[t].draw_radio
    /\ tabs' = [tabs EXCEPT ![t] = HandleLineMove(tabs[t], pos)]
    /\ UNCHANGED <<disk, status>>

\* eventFilter in draw-line mode, a left release at pos: handle_line_release
LineRelease(t, pos) ==
    /\ t \in DOMAIN tabs
    /\ tabs[t].img_color # None
    /\ tabs[t].draw_radio
    /\ Len(tabs[t].current_line_items) < MaxLines
    /\ tabs' = [tabs EXCEPT ![t] = HandleLineRelease(tabs[t], pos)]
    /\ status' = IF tabs[t].line_start_point = None THEN status ELSE "Line drawn"
    /\ UNCHANGED disk

\* save_project, the user picking the project file
SaveProject ==
    /\ Len(tabs) # 0
    /\ disk' = JsonDump([version |-> "1.0", tabs |-> ProjectStates(tabs, 1)])
    /\ status' = "Project saved"
    /\ UNCHANGED tabs

\* load_project_with_dialog, the user picking path: _load_project_from_path
LoadProject(path) ==
    /\ LET r == LoadProjectFromPath(tabs, path) IN
       /\ tabs' = r.tabs
       /\ status' = r.status
    /\ UNCHANGED disk

(***************************************************************************)
(* Spec: one tab from start-up, closed, renamed, and under every handler of *)
(* the tab (the store and the calibration).  The project file is not       *)
(* written.                                                                *)
(***************************************************************************)
Next ==
    \/ \E t \in DOMAIN tabs : CloseTab(t)
    \/ \E t \in DOMAIN tabs, name \in TabNames : RenameTab(t, name)
    \/ \E t \in DOMAIN tabs, path \in ImagePaths : ImportImage(t, path)
    \/ \E t \in DOMAIN tabs, pos \in ClickPoints : HandleClick(t, pos)
    \/ \E t \in DOMAIN tabs, r \in 1..(MaxId + 2) : SelectRow(t, r)
    \/ \E t \in DOMAIN tabs : DeleteSelected(t)
    \/ \E t \in DOMAIN tabs, wh \in InputTexts : EditInputs(t, wh[1], wh[2])
    \/ \E t \in DOMAIN tabs : Recalculate(t)

Spec == Init /\ [][Next]_vars

(***************************************************************************)
(* SpecOwn: one tab from start-up, saved to and loaded from the project    *)
(* file this program writes.                                               *)
(***************************************************************************)
OwnTexts == { <<"200", "200">> }

\* the files the user imports in it: an image and a file that is no image
OwnPaths == {"cellsB.png", "notes.txt"}

NextOwn ==
    \/ \E t \in DOMAIN tabs, path \in OwnPaths : ImportImage(t, path)
    \/ \E t \in DOMAIN tabs, pos \in ClickPoints : HandleClick(t, pos)
    \/ \E t \in DOMAIN tabs, r \in 1..(MaxId + 2) : SelectRow(t, r)
    \/ \E t \in DOMAIN tabs : DeleteSelected(t)
    \/ \E t \in DOMAIN tabs, wh \in OwnTexts : EditInputs(t, wh[1], wh[2])
    \/ \E t \in DOMAIN tabs : Recalculate(t)
    \/ SaveProject
    \/ LoadProject(SavedPath)

SpecOwn == Init /\ [][NextOwn]_vars

(***************************************************************************)
(* SpecScale: one tab from start-up, calibrated, given an image and        *)
(* clicked, on a 1000x800 image and a 50x40 image.                         *)
(***************************************************************************)
ScaleTexts == { <<"100", "80">>, <<"200", "200">> }

ScalePaths == {"plate.png", "cellsB.png"}

\* scene positions in half pixels: inside the region of plate.png, and inside
\* the region of cellsB.png
ScaleClicks == { <<240, 220>>, <<20, 20>> }

NextScale ==
    \/ \E t \in DOMAIN tabs, path \in ScalePaths : ImportImage(t, path)
    \/ \E t \in DOMAIN tabs, pos \in ScaleClicks : HandleClick(t, pos)
    \/ \E t \in DOMAIN tabs, wh \in ScaleTexts : EditInputs(t, wh[1], wh[2])
    \/ \E t \in DOMAIN tabs : Recalculate(t)

SpecScale == Init /\ [][NextScale]_vars

(***************************************************************************)
(* SpecLines: one tab from start-up, given an image, clicked in analysis    *)
(* mode and drawn on in draw-line mode, and saved.                         *)
(***************************************************************************)
LinePaths == {"cellsB.png"}

\* the scene positions of the mouse while a line is drawn, in half pixels
LinePoints == { <<20, 20>>, <<60, 40>> }

NextLines ==
    \/ \E t \in DOMAIN tabs, path \in LinePaths : ImportImage(t, path)
    \/ \E t \in DOMAIN tabs, pos \in ClickPoints : HandleClick(t, pos)
    \/ \E t \in DOMAIN tabs, draw \in BOOLEAN : SelectMode(t, draw)
    \/ \E t \in DOMAIN tabs, pos \in LinePoints : LinePress(t, pos)
    \/ \E t \in DOMAIN tabs, pos \in LinePoints : LineMove(t, pos)
    \/ \E t \in DOMAIN tabs, pos \in LinePoints : LineRelease(t, pos)
    \/ SaveProject

SpecLines == Init /\ [][NextLines]_vars

(***************************************************************************)
(* SpecFiles: the window and the project file.  The window starts with     *)
(* tabs a session of the handlers of a tab passes through, and runs the    *)
(* handlers of the window: add and close a tab, save_project and           *)
(* _load_project_from_path on every file.                                  *)
(***************************************************************************)
\* handler calls of the sample session that the tabs of the starting window
\* have been through
SampleDepth == 5

\* call j of the sample session on a tab: import cellsA.png, click a cell,
\* Recalculate on the fields "200" and "abc", import cellsB.png, and from then
\* on click a cell
SessionStep(tab, j) ==
    LET hit == FirstContourAt(tab, <<Trunc(35), Trunc(27)>>) IN
    CASE j = 1 -> AnalyzeImage(tab, ImRead("cellsA.png"))
      [] j = 3 -> RecalculateDimensions([tab EXCEPT !.width_input = "200",
                                                    !.height_input = "abc"]).tab
      [] j = 4 -> AnalyzeImage(tab, ImRead("cellsB.png"))
      [] OTHER -> IF hit # 0 /\ tab.next_cell_id <= MaxId
                  THEN ClickCreate(tab, tab.contours[hit]) ELSE tab

\* the tab after the first j calls of the sample session on a new tab
RECURSIVE SessionTab(_)
SessionTab(j) ==
    IF j = 0 THEN NewTab("") ELSE SessionStep(SessionTab(j - 1), j)

\* the tabs the sample session passes through in its first k calls
TabsWithin(k) == {SessionTab(j) : j \in 0..k}

\* the windows of n such tabs, titled as add_new_tab titles them
Windows(n) ==
    { [i \in 1..n |-> [f[i] EXCEPT !.title = "New Tab " \o StrInt(i)]] :
          f \in [1..n -> TabsWithin(SampleDepth)] }

InitFiles ==
    /\ \E n \in 1..MaxTabs : tabs \in Windows(n)
    /\ disk = None
    /\ status = "Welcome"

NextFiles ==
    \/ AddNewTab
    \/ \E t \in DOMAIN tabs : CloseTab(t)
    \/ SaveProject
    \/ \E path \in ForeignPaths \cup {SavedPath} : LoadProject(path)

SpecFiles == InitFiles /\ [][NextFiles]_vars

(***************************************************************************)
(* Properties.                                                             *)
(***************************************************************************)
\* the ids of the records of a tab, in store order
Ids(tab) == [i \in DOMAIN tab.cell_measurements |-> tab.cell_measurements[i].id]

Range(seq) == {seq[i] : i \in DOMAIN seq}

StrictlyIncreasing(seq) ==
    \A i, j \in DOMAIN seq : i < j => seq[i] < seq[j]

\* what a project file keeps of a tab
Persisted(tab) ==
    [ title             |-> tab.title,
      img_color         |-> tab.img_color,
      image_width_um    |-> tab.image_width_um,
      image_height_um   |-> tab.image_height_um,
      next_cell_id      |-> tab.next_cell_id,
      cell_measurements |-> Serializable(tab.cell_measurements, 1) ]

\* the calibration and the store of a tab
CalibrationAndStore(tab) ==
    [ image_width_um    |-> tab.image_width_um,
      image_height_um   |-> tab.image_height_um,
      pixel_width_um    |-> tab.pixel_width_um,
      pixel_height_um   |-> tab.pixel_height_um,
      next_cell_id      |-> tab.next_cell_id,
      cell_measurements |-> Serializable(tab.cell_measurements, 1) ]

\* C1: within one lifetime of a tab's store (from an image analysis to the
\* next analysis or restore) the ids handle_click hands out are strictly
\* increasing, so none is handed out twice, also after its record was
\* deleted; and every record of the store holds an id handed out in it.
C1_IdsStrictlyIncreasing ==
    \A t \in DOMAIN tabs :
        /\ StrictlyIncreasing(tabs[t].issued)
        /\ Range(Ids(tabs[t])) \subseteq Range(tabs[t].issued)

\* two ids were handed out, the record of the first was deleted
C1_Witness ==
    \E t \in DOMAIN tabs :
        /\ tabs[t].issued = <<1, 2>>
        /\ Ids(tabs[t]) = <<2>>
        /\ status = "Cell added"

\* C2: next_cell_id is greater than the id of every record of the store, and
\* the ids of the store are pairwise distinct, in every state reached by
\* image analysis, clicks, delete, recalculate, and save followed by load of
\* the project file this program wrote.
C2_NextIdAboveIds ==
    \A t \in DOMAIN tabs :
        /\ \A i \in DOMAIN Ids(tabs[t]) : Ids(tabs[t])[i] < tabs[t].next_cell_id
        /\ \A i, j \in DOMAIN Ids(tabs[t]) : i # j => Ids(tabs[t])[i] # Ids(tabs[t])[j]

\* a store restored from the project file (nothing handed out since) that
\* holds a record, and then one more record created by a click
C2_Witness ==
    \E t \in DOMAIN tabs :
        /\ tabs[t].issued = <<2>>
        /\ Ids(tabs[t]) = <<1, 2>>
        /\ tabs[t].next_cell_id = 3

\* the tabs of a window that hold an image, in tab order
WithImage(open) == SelectSeq(open, LAMBDA tab : tab.img_color # None)

PersistedAll(open) == [i \in DOMAIN open |-> Persisted(open[i])]

\* the project file holds what save_project writes for the tabs now open
JustSaved == disk = JsonDump([version |-> "1.0", tabs |-> ProjectStates(tabs, 1)])

\* C3 as claimed: save_project followed by _load_project_from_path gives back
\* every tab of the window, in order, with the same title, image, physical
\* size, next_cell_id and records.
C3_RoundTripEveryTab ==
    [][JustSaved /\ status' = "Project loaded" /\ LoadProject(SavedPath)
         => PersistedAll(tabs') = PersistedAll(tabs)]_vars

\* C3 amended: save_project followed by _load_project_from_path gives back, in
\* the same order, the tabs that hold an image, each with the same title,
\* image, physical size, next_cell_id and records; a tab with no image is not
\* written and does not come back.
C3_RoundTripTabsWithImage ==
    [][JustSaved /\ status' = "Project loaded" /\ LoadProject(SavedPath)
         => PersistedAll(tabs') = PersistedAll(WithImage(tabs))]_vars

\* two tabs with an image, one with a record, loaded back from the file that
\* was saved from them
C3_Witness ==
    /\ status = "Project loaded"
    /\ JustSaved
    /\ Len(tabs) = 2
    /\ \A t \in DOMAIN tabs : tabs[t].img_color # None
    /\ tabs[1].title # tabs[2].title
    /\ tabs[1].img_color # tabs[2].img_color
    /\ tabs[1].image_width_um # tabs[2].image_width_um
    /\ \E t \in DOMAIN tabs : tabs[t].cell_measurements # << >>

\* the values of record m derived from its contour_data and the calibration
\* the tab declares: image_width_um and image_height_um over the pixel size of
\* its image
Rederived(tab, m) ==
    LET contour == NpArray(m.contour_data)
        rect == BoundingRect(contour)
        ux == DivInt(tab.image_width_um, tab.img_color.w)
        uy == DivInt(tab.image_height_um, tab.img_color.h)
    IN  [ area_um2  |-> Mul(Mul(ContourArea(contour), ux), uy),
          width_um  |-> IntMul(rect[3], ux),
          height_um |-> IntMul(rect[4], uy) ]

\* C4: in a tab with an image, every record's area_um2, width_um and
\* height_um equal the values derived again from its contour_data and the
\* tab's current calibration.
C4_DerivedValuesAgree ==
    \A t \in DOMAIN tabs :
        tabs[t].img_color # None =>
            \A i \in DOMAIN tabs[t].cell_measurements :
                LET m == tabs[t].cell_measurements[i]
                    d == Rederived(tabs[t], m)
                IN  /\ m.area_um2 = d.area_um2
                    /\ m.width_um = d.width_um
                    /\ m.height_um = d.height_um

\* C5: Recalculate with a width or height field that is no number leaves the
\* calibration, the records and next_cell_id as they were and shows the
\* "invalid input" status.
C5_InvalidInputChangesNothing ==
    [][\A t \in DOMAIN tabs :
           ( /\ Recalculate(t)
             /\ FloatFails(tabs[t].width_input) \/ FloatFails(tabs[t].height_input) )
           => /\ CalibrationAndStore(tabs'[t]) = CalibrationAndStore(tabs[t])
              /\ status' = "Invalid input"]_vars

\* the text of a project file makes the load fail: no file, no JSON, no
\* "tabs" key, or an entry that is no object, has no image, has an image
\* that does not decode, a size that is not positive, or a malformed record
EntryFails(state) ==
    \/ ~IsDict(state)
    \/ Get(state, "image_b64", None) = None
    \/ ImDecode(B64Decode(state.image_b64)) = None
    \/ ~Greater(Get(state, "image_width_um", Float(100)), Float(0))
    \/ ~Greater(Get(state, "image_height_um", Float(100)), Float(0))
    \/ \E i \in DOMAIN Get(state, "cell_measurements", << >>) :
           ~HasKeys(state.cell_measurements[i])

DocumentFails(text) ==
    \/ text = None
    \/ JsonFails(text)
    \/ TabsKeyMissing(JsonLoad(text))
    \/ \E i \in DOMAIN JsonLoad(text).tabs : EntryFails(JsonLoad(text).tabs[i])

\* C6: an image import that fails, and a project load that fails, leave the
\* open tabs and each tab's image, calibration, records and next_cell_id as
\* they were.
C6_FailedLoadChangesNothing ==
    [][ /\ \A path \in ForeignPaths \cup {SavedPath} :
              LoadProject(path) /\ DocumentFails(ReadFile(path)) => tabs' = tabs
        /\ \A t \in DOMAIN tabs, path \in ImagePaths :
              ImportImage(t, path) /\ ImRead(path) = None => tabs' = tabs ]_vars

\* C7: Recalculate on a tab with an image, from physical size (W, H) to
\* (2W, 2H), doubles every record's width_um and height_um and quadruples its
\* area_um2; ids, contour_data, order and next_cell_id stay.
C7_DoublingDoubles ==
    [][\A t \in DOMAIN tabs :
           ( /\ Recalculate(t)
             /\ tabs[t].img_gray # None
             /\ ~FloatFails(tabs[t].width_input)
             /\ ~FloatFails(tabs[t].height_input)
             /\ ParseFloat(tabs[t].width_input) = IntMul(2, tabs[t].image_width_um)
             /\ ParseFloat(tabs[t].height_input) = IntMul(2, tabs[t].image_height_um) )
           => /\ tabs'[t].next_cell_id = tabs[t].next_cell_id
              /\ Len(tabs'[t].cell_measurements) = Len(tabs[t].cell_measurements)
              /\ \A i \in DOMAIN tabs[t].cell_measurements :
                    LET m == tabs[t].cell_measurements[i]
                        n == tabs'[t].cell_measurements[i]
                    IN  /\ n.id = m.id
                        /\ n.contour_data = m.contour_data
                        /\ n.width_um = IntMul(2, m.width_um)
                        /\ n.height_um = IntMul(2, m.height_um)
                        /\ n.area_um2 = IntMul(4, m.area_um2)]_vars

\* C8: Recalculate pressed again on the same fields changes nothing: after any
\* Recalculate, the records, the calibration and next_cell_id a second
\* Recalculate gives are the ones the first gave.
C8_RecalculateIdempotent ==
    [][\A t \in DOMAIN tabs :
           Recalculate(t) =>
               CalibrationAndStore(RecalculateDimensions(tabs'[t]).tab)
                   = CalibrationAndStore(tabs'[t])]_vars

\* a Recalculate that changed the calibration of a tab with two records
C8_Witness ==
    \E t \in DOMAIN tabs :
        /\ status = "Image dimensions updated"
        /\ Len(tabs[t].cell_measurements) = 2
        /\ tabs[t].image_width_um = Float(400)
        /\ tabs[t].pixel_width_um # Float(1)
        /\ CalibrationAndStore(tabs[t])
               = CalibrationAndStore(RecalculateDimensions(tabs[t]).tab)

\* C9: a project document whose "tabs" list is empty loads and gives zero
\* tabs; a document with no "tabs" key fails to load (and changes nothing).
C9_EmptyAndMissingTabs ==
    [][\A path \in ForeignPaths \cup {SavedPath} :
           LET text == ReadFile(path) IN
           /\ ( /\ text # None /\ ~JsonFails(text)
                /\ "tabs" \notin DOMAIN JsonLoad(text)
                /\ LoadProject(path) )
              => status' = "Error loading project" /\ tabs' = tabs
           /\ ( /\ text # None /\ ~JsonFails(text)
                /\ "tabs" \in DOMAIN JsonLoad(text)
                /\ JsonLoad(text).tabs = << >>
                /\ LoadProject(path) )
              => status' = "Project loaded" /\ tabs' = << >>]_vars

\* a window left with zero tabs by a load that succeeded
C9_Witness == Len(tabs) = 0 /\ status = "Project loaded"

\* the text of a project file holds a tab whose image does not decode
HasUndecodableImage(text) ==
    /\ text # None
    /\ ~JsonFails(text)
    /\ ~TabsKeyMissing(JsonLoad(text))
    /\ \E i \in DOMAIN JsonLoad(text).tabs :
          LET state == JsonLoad(text).tabs[i] IN
          /\ IsDict(state)
          /\ Get(state, "image_b64", None) # None
          /\ ImDecode(B64Decode(state.image_b64)) = None

\* C10: loading a snapshot whose image does not decode is reported as failed
\* and installs no record of that snapshot in any tab.
C10_UndecodableImageFails ==
    [][\A path \in ForeignPaths \cup {SavedPath} :
           LoadProject(path) /\ HasUndecodableImage(ReadFile(path))
           => /\ status' = "Error loading project"
              /\ \A t \in DOMAIN tabs' :
                    tabs'[t].img_color = None => tabs'[t].cell_measurements = << >>]_vars

\* the text of a project file holds a tab whose image_width_um or
\* image_height_um is zero or negative
HasNonPositiveDimension(text) ==
    /\ text # None
    /\ ~JsonFails(text)
    /\ ~TabsKeyMissing(JsonLoad(text))
    /\ \E i \in DOMAIN JsonLoad(text).tabs :
          LET state == JsonLoad(text).tabs[i] IN
          /\ IsDict(state)
          /\ \/ ~Greater(Get(state, "image_width_um", Float(100)), Float(0))
             \/ ~Greater(Get(state, "image_height_um", Float(100)), Float(0))

\* C11: loading a snapshot whose image_width_um or image_height_um is zero or
\* negative is reported as failed, and after the load no tab holds a physical
\* dimension that is not positive.
C11_NonPositiveDimensionFails ==
    [][\A path \in ForeignPaths \cup {SavedPath} :
           HasNonPositiveDimension(ReadFile(path)) /\ LoadProject(path)
           => /\ status' = "Error loading project"
              /\ \A t \in DOMAIN tabs' :
                    /\ Greater(tabs'[t].image_width_um, Float(0))
                    /\ Greater(tabs'[t].image_height_um, Float(0))]_vars

\* the point of a click, and the contours of a tab that hold it
ClickedPoint(pos) == <<Trunc(pos[1]), Trunc(pos[2])>>

RegionsAt(tab, pos) ==
    {i \in DOMAIN tab.contours : PointInPolygon(tab.contours[i], ClickedPoint(pos))}

\* C12: a click at a point that lies inside none of the detected regions
\* creates no record and leaves the records, next_cell_id and the calibration
\* as they were.
C12_MissCreatesNothing ==
    [][\A t \in DOMAIN tabs :
           \/ CalibrationAndStore(tabs'[t]) = CalibrationAndStore(tabs[t])
           \/ \A pos \in ClickPoints :
                 ~(RegionsAt(tabs[t], pos) = {} /\ HandleClick(t, pos))]_vars

\* a tab with an image, detected regions and a record, and a click point
\* outside every region
C12_Witness ==
    \E t \in DOMAIN tabs, pos \in ClickPoints :
        /\ tabs[t].img_color # None
        /\ tabs[t].contours # << >>
        /\ tabs[t].cell_measurements # << >>
        /\ RegionsAt(tabs[t], pos) = {}

\* the tab with the text of its selected row replaced by an id that no record
\* of the store holds
WithUnheldId(tab) ==
    [tab EXCEPT !.measurements_table[tab.selected] = StrInt(tab.next_cell_id)]

\* C13: Delete Selected with no selected row, or with a selected row whose id
\* no record holds, leaves the records, their order and next_cell_id as they
\* were.
C13_DeleteOfNothingChangesNothing ==
    [][\A t \in DOMAIN tabs :
           /\ (tabs[t].selected = 0 /\ DeleteSelected(t))
                  => /\ CalibrationAndStore(tabs'[t]) = CalibrationAndStore(tabs[t])
                     /\ status' = "No measurement selected"
           /\ ( /\ tabs[t].selected # 0
                /\ \A i \in DOMAIN tabs[t].cell_measurements :
                      tabs[t].cell_measurements[i].id # tabs[t].next_cell_id )
                  => \A sel \in 0..Len(tabs[t].measurements_table) :
                        CalibrationAndStore(
                            DeleteSelectedMeasurement(WithUnheldId(tabs[t]), sel).tab)
                          = CalibrationAndStore(tabs[t])]_vars

\* Delete Selected pressed with no selected row on a store that holds a record
C13_Witness ==
    \E t \in DOMAIN tabs :
        /\ tabs[t].selected = 0
        /\ tabs[t].cell_measurements # << >>
        /\ status = "No measurement selected"

\* C14: Delete Selected on a row whose id a record holds removes that one
\* record; every other record keeps its id, contour_data, derived values and
\* place in the order, and next_cell_id stays as it was.
C14_DeleteRemovesExactlyOne ==
    [][\A t \in DOMAIN tabs :
           LET before == Serializable(tabs[t].cell_measurements, 1)
               held == {i \in DOMAIN before :
                          tabs[t].selected # 0
                          /\ StrInt(before[i].id)
                                = tabs[t].measurements_table[tabs[t].selected]}
           IN  (held # {} /\ DeleteSelected(t))
               => /\ \E k \in held :
                        Serializable(tabs'[t].cell_measurements, 1) = RemoveAt(before, k)
                  /\ tabs'[t].next_cell_id = tabs[t].next_cell_id
                  /\ tabs'[t].image_width_um = tabs[t].image_width_um
                  /\ tabs'[t].image_height_um = tabs[t].image_height_um]_vars

\* the first of two records deleted, the second left with its id
C14_Witness ==
    \E t \in DOMAIN tabs :
        /\ status = "Deleted Cell"
        /\ Ids(tabs[t]) = <<2>>
        /\ tabs[t].next_cell_id = 3

\* the tab snapshots of the project file save_project last wrote
WrittenSnapshots == IF disk = None THEN << >> ELSE JsonLoad(disk).tabs

\* C15 (as the specification states it): in every snapshot save_state wrote,
\* next_cell_id is greater than every id among the snapshot's records, and is
\* 1 if the snapshot has no records.
C15_SnapshotNextIdOneWhenEmpty ==
    \A i \in DOMAIN WrittenSnapshots :
        LET s == WrittenSnapshots[i] IN
        /\ \A k \in DOMAIN s.cell_measurements :
               s.cell_measurements[k].id < s.next_cell_id
        /\ s.cell_measurements = << >> => s.next_cell_id = 1

\* C15 (as the code has it): in every snapshot save_state wrote,
\* next_cell_id is at least 1 and greater than every id among the snapshot's
\* records; with no records it may be above 1, the ids of deleted records
\* staying spent.
C15_SnapshotNextIdAboveIds ==
    \A i \in DOMAIN WrittenSnapshots :
        LET s == WrittenSnapshots[i] IN
        /\ s.next_cell_id >= 1
        /\ \A k \in DOMAIN s.cell_measurements :
               s.cell_measurements[k].id < s.next_cell_id

\* a snapshot written after a record was created and deleted: no records,
\* and a counter above 1
C15_Witness ==
    \E i \in DOMAIN WrittenSnapshots :
        /\ WrittenSnapshots[i].cell_measurements = << >>
        /\ WrittenSnapshots[i].next_cell_id = 2

\* C16: when the import of a readable image has analyzed it in a tab, the
\* store of that tab is empty and its next_cell_id is 1, and each
\* unit-per-pixel value times the pixel size of the new image is the physical
\* dimension of the tab.
C16_NewImageClearsStore ==
    [][\A t \in DOMAIN tabs, path \in ImagePaths :
           (status' = "Image scaled to fit" /\ ImRead(path) # None
            /\ ImportImage(t, path))
           => /\ tabs'[t].cell_measurements = << >>
              /\ tabs'[t].measurements_table = << >>
              /\ tabs'[t].next_cell_id = 1
              /\ tabs'[t].img_color = CvtColorSwap(ImRead(path))
              /\ tabs'[t].image_width_um = tabs[t].image_width_um
              /\ tabs'[t].image_height_um = tabs[t].image_height_um
              /\ IntMul(ImRead(path).w, tabs'[t].pixel_width_um)
                    = tabs[t].image_width_um
              /\ IntMul(ImRead(path).h, tabs'[t].pixel_height_um)
                    = tabs[t].image_height_um]_vars

\* the 50x40 image just analyzed in a tab recalibrated to 200x200: an empty
\* store, the counter at 1, and 4 by 5 units per pixel
C16_Witness ==
    \E t \in DOMAIN tabs :
        /\ status = "Image scaled to fit"
        /\ tabs[t].img_color = CvtColorSwap(ImageB)
        /\ tabs[t].image_width_um = Float(200)
        /\ tabs[t].image_height_um = Float(200)
        /\ tabs[t].pixel_width_um = Float(4)
        /\ tabs[t].pixel_height_um = Float(5)
        /\ tabs[t].cell_measurements = << >>
        /\ tabs[t].next_cell_id = 1

\* C17: a click creates at most one record; a click on a point that one or
\* several regions hold appends one record at the end of the store, bound to
\* the first of those regions in detection order and bearing the
\* next_cell_id of before the click, and raises next_cell_id by exactly 1.
C17_ClickBindsFirstRegion ==
    [][\A t \in DOMAIN tabs, pos \in ClickPoints :
           LET old == Serializable(tabs[t].cell_measurements, 1)
               new == Serializable(tabs'[t].cell_measurements, 1)
               hit == RegionsAt(tabs[t], pos)
           IN  /\ \/ Len(tabs'[t].cell_measurements)
                        <= Len(tabs[t].cell_measurements) + 1
                  \/ ~HandleClick(t, pos)
               /\ (status' = "Cell added" /\ hit # {} /\ HandleClick(t, pos))
                  => /\ Len(new) = Len(old) + 1
                     /\ SubSeq(new, 1, Len(old)) = old
                     /\ new[Len(new)].id = tabs[t].next_cell_id
                     /\ new[Len(new)].contour_data
                           = ToList(tabs[t].contours[Min(hit)])
                     /\ tabs'[t].next_cell_id = tabs[t].next_cell_id + 1]_vars

\* a second record just created by a click on a point two regions hold: it
\* is bound to the first of the two and stands last in the store
C17_Witness ==
    \E t \in DOMAIN tabs :
        /\ status = "Cell added"
        /\ Ids(tabs[t]) = <<1, 2>>
        /\ tabs[t].next_cell_id = 3
        /\ Cardinality({i \in DOMAIN tabs[t].contours :
                           PointInPolygon(tabs[t].contours[i], <<17, 13>>)}) = 2
        /\ tabs[t].cell_measurements[2].contour_data = ToList(Rect(10, 10, 20, 16))

\* the record a click has just appended to the store of a tab
Newest(tab) == tab.cell_measurements[Len(tab.cell_measurements)]

\* C18: an image of 1000x800 pixels analyzed in a tab of physical size 100x80
\* gets 1/10 as both unit-per-pixel values; a record created under them from
\* a region with a 50x40 bounding box and pixel area 1600 has width_um 5,
\* height_um 4 and area_um2 16; and every record a click creates has area_um2
\* = pixel area * unit per pixel x * unit per pixel y, width_um = bounding box
\* width * unit per pixel x, height_um = bounding box height * unit per pixel y.
C18_ScaleExample ==
    [][\A t \in DOMAIN tabs :
          /\ (status' = "Image scaled to fit"
               /\ tabs[t].image_width_um = Float(100)
               /\ tabs[t].image_height_um = Float(80)
               /\ ImportImage(t, "plate.png"))
              => /\ tabs'[t].img_color.w = 1000 /\ tabs'[t].img_color.h = 800
                 /\ tabs'[t].pixel_width_um = Rat(1, 10)
                 /\ tabs'[t].pixel_height_um = Rat(1, 10)
          /\ \A pos \in ScaleClicks :
                (status' = "Cell added" /\ RegionsAt(tabs[t], pos) # {}
                 /\ HandleClick(t, pos))
                => LET c    == tabs[t].contours[Min(RegionsAt(tabs[t], pos))]
                       rect == BoundingRect(c)
                       ux   == tabs[t].pixel_width_um
                       uy   == tabs[t].pixel_height_um
                       m    == Newest(tabs'[t])
                   IN  /\ m.area_um2 = Mul(Mul(ContourArea(c), ux), uy)
                       /\ m.width_um = IntMul(rect[3], ux)
                       /\ m.height_um = IntMul(rect[4], uy)
                       /\ (/\ rect[3] = 50 /\ rect[4] = 40
                            /\ ContourArea(c) = Float(1600)
                            /\ ux = Rat(1, 10) /\ uy = Rat(1, 10))
                           => /\ m.width_um = Float(5)
                              /\ m.height_um = Float(4)
                              /\ m.area_um2 = Float(16)]_vars

\* the record of the example: the 1000x800 image under 100x80, a region of
\* 50x40 pixels and pixel area 1600, a record of 5 by 4 and area 16
C18_Witness ==
    \E t \in DOMAIN tabs :
        /\ status = "Cell added"
        /\ tabs[t].img_color.w = 1000 /\ tabs[t].img_color.h = 800
        /\ tabs[t].image_width_um = Float(100)
        /\ tabs[t].image_height_um = Float(80)
        /\ tabs[t].pixel_width_um = Rat(1, 10)
        /\ tabs[t].pixel_height_um = Rat(1, 10)
        /\ LET m == Newest(tabs[t])
               rect == BoundingRect(NpArray(m.contour_data))
           IN  /\ rect[3] = 50 /\ rect[4] = 40
               /\ ContourArea(NpArray(m.contour_data)) = Float(1600)
               /\ m.width_um = Float(5)
               /\ m.height_um = Float(4)
               /\ m.area_um2 = Float(16)

\* C19: in every tab the cell outlines in the scene are exactly the
\* outline_item objects of the records of cell_measurements, one per record.
C19_OutlinesAreTheRecords ==
    \A t \in DOMAIN tabs :
        /\ tabs[t].scene = OutlineItems(tabs[t])
        /\ Cardinality(OutlineItems(tabs[t])) = Len(tabs[t].cell_measurements)

\* C20: in every tab the table has one row per record of cell_measurements,
\* in the order of the store, and row i shows the id of record i.
C20_TableShowsTheStore ==
    \A t \in DOMAIN tabs :
        /\ Len(tabs[t].measurements_table) = Len(tabs[t].cell_measurements)
        /\ \A i \in DOMAIN tabs[t].cell_measurements :
               tabs[t].measurements_table[i] = StrInt(tabs[t].cell_measurements[i].id)

\* a store restored from the project file with two records, the first of
\* them then deleted: one row, showing the id of the record that is left
C20_Witness ==
    \E t \in DOMAIN tabs :
        /\ status = "Deleted Cell"
        /\ tabs[t].issued = << >>
        /\ Ids(tabs[t]) = <<2>>
        /\ tabs[t].measurements_table = <<"2">>

\* the text of a project file holds a tab snapshot on which load_state fails:
\* its except clause runs, or an exception leaves it
HasFailingSnapshot(text) ==
    /\ text # None
    /\ ~JsonFails(text)
    /\ ~TabsKeyMissing(JsonLoad(text))
    /\ \E i \in DOMAIN JsonLoad(text).tabs :
          LoadState(NewTab(""), JsonLoad(text).tabs[i]).end # "ok"

\* C21: when load_state fails on one tab snapshot of a document, the load of
\* the document is reported as failed and the window gets no tab it did not
\* hold before.
C21_LoadAllOrNothing ==
    [][\A path \in ForeignPaths \cup {SavedPath} :
           (HasFailingSnapshot(ReadFile(path)) /\ LoadProject(path))
           => /\ status' # "Project loaded"
              /\ Range(tabs') \subseteq Range(tabs)]_vars

\* C22: after a load of a project document, every tab whose load_state
\* succeeded holds exactly the records of its snapshot, in snapshot order,
\* with the stored id, contour_data, area_um2, width_um and height_um, and
\* the next_cell_id of the snapshot.
C22_RestoreVerbatim ==
    [][\A path \in ForeignPaths \cup {SavedPath} :
           (status' = "Project loaded" /\ LoadProject(path))
           => LET states == JsonLoad(ReadFile(path)).tabs IN
              /\ Len(tabs') = Len(states)
              /\ \A i \in DOMAIN states :
                    LoadState(NewTab(""), states[i]).end = "ok"
                    => /\ Serializable(tabs'[i].cell_measurements, 1)
                             = Get(states[i], "cell_measurements", << >>)
                       /\ tabs'[i].next_cell_id = Get(states[i], "next_cell_id", 1)]_vars

\* a tab restored from the saved project file with a record whose stored
\* width is not the width its contour has under the restored calibration:
\* the record came back as stored
C22_Witness ==
    /\ status = "Project loaded"
    /\ JustSaved
    /\ \E t \in DOMAIN tabs :
          /\ tabs[t].img_color # None
          /\ tabs[t].next_cell_id = 2
          /\ Ids(tabs[t]) = <<1>>
          /\ tabs[t].cell_measurements[1].width_um
                # Rederived(tabs[t], tabs[t].cell_measurements[1]).width_um

\* C23: a press, a move or a release in draw-line mode creates no record and
\* leaves the records, next_cell_id and the calibration of the tab as they
\* were, and the snapshot save_state gives of the tab is the one it gave
\* before the event.
C23_LinesAreDisplayOnly ==
    [][\A t \in DOMAIN tabs :
           \/ /\ CalibrationAndStore(tabs'[t]) = CalibrationAndStore(tabs[t])
              /\ SaveState(tabs'[t]) = SaveState(tabs[t])
           \/ \A pos \in LinePoints :
                 ~(LinePress(t, pos) \/ LineMove(t, pos) \/ LineRelease(t, pos))]_vars

\* a project file written from a tab that holds a record and two drawn
\* lines: its snapshot is the one of the tab without the lines
C23_Witness ==
    /\ JustSaved
    /\ \E t \in DOMAIN tabs :
          /\ Len(tabs[t].current_line_items) = 2
          /\ Ids(tabs[t]) = <<1>>
          /\ WrittenSnapshots
                = << SaveState([tabs[t] EXCEPT !.current_line_items = << >>]) >>

\* C24: after a load of the project file, the width and the height field of
\* every restored tab show its image_width_um and image_height_um, and a
\* Recalculate on the fields as they are leaves the dimensions, the records
\* and their derived values as restored.
C24_FieldsShowRestoredSize ==
    [][(status' = "Project loaded" /\ LoadProject(SavedPath))
         => \A t \in DOMAIN tabs' :
               tabs'[t].img_color # None
               => /\ tabs'[t].width_input = StrFloat(tabs'[t].image_width_um)
                  /\ tabs'[t].height_input = StrFloat(tabs'[t].image_height_um)
                  /\ CalibrationAndStore(RecalculateDimensions(tabs'[t]).tab)
                        = CalibrationAndStore(tabs'[t])]_vars

\* C25: the window holds at least one tab, after start-up and after every
\* add_new_tab, close_tab, save_project and load of a project document.
C25_AtLeastOneTab == Len(tabs) >= 1

\* C26: save_project writes one snapshot for each open tab that holds an
\* image, in tab order, and none for a tab with no image; a load of the file
\* just saved gives as many tabs as held an image when it was saved.
C26_OneSnapshotPerImageTab ==
    [][ /\ (status' = "Project saved" /\ SaveProject)
           => LET kept == WithImage(tabs)
                  written == JsonLoad(disk').tabs
              IN  /\ Len(written) = Len(kept)
                  /\ \A i \in DOMAIN kept :
                        /\ written[i].title = kept[i].title
                        /\ ImDecode(B64Decode(written[i].image_b64))
                              = CvtColorSwap(kept[i].img_color)
                        /\ written[i].cell_measurements
                              = Serializable(kept[i].cell_measurements, 1)
        /\ (JustSaved /\ status' = "Project loaded" /\ LoadProject(SavedPath))
           => Len(tabs') = Len(WithImage(tabs)) ]_vars

\* a window of two tabs, one of them with no image, just saved: the file
\* holds one snapshot
C26_Witness ==
    /\ status = "Project saved"
    /\ JustSaved
    /\ Len(tabs) = 2
    /\ Len(WithImage(tabs)) = 1
    /\ Len(WrittenSnapshots) = 1

====
